---- MODULE Spec2Model ----
(***************************************************************************)
(* Eventora backend: the booking / inventory core.                         *)
(*                                                                         *)
(* The state is the three MongoDB collections the handlers touch (events,  *)
(* bookings, counters) and the HTTP requests in flight.  Every handler is  *)
(* an async function: it runs atomically from one `await` on a storage     *)
(* call to the next, so each action below is one storage call together     *)
(* with the synchronous code that follows it up to the next storage call.  *)
(* Requests interleave at these points only.                               *)
(*                                                                         *)
(* A Mongoose save() of a loaded document writes the paths modified on the *)
(* in-memory copy ($set), whatever the stored document holds by then.      *)
(* A path assigned the value it already has is not modified and is not     *)
(* written.  A storage write can fail (the handler's catch answers 500);   *)
(* the number of failures in one run is bounded by MaxFaults.  A failing   *)
(* read has the same outcome with nothing written before it, and is left   *)
(* out.                                                                    *)
(***************************************************************************)
EXTENDS Integers, Sequences, FiniteSets

\* ---------------------------------------------------------------- bounds
MaxReqs == 2
MaxTickets == 2
MaxQty == 2
MaxFaults == 1

Reqs == 1..MaxReqs
Users == {"u1", "u2"}
Prices == {5}

VARIABLES
  events,     \* the Event collection: sequence of documents, in insertion order
  bookings,   \* the Booking collection: sequence of documents, in insertion order
  counters,   \* the Counter collection: counter name -> seq
  reqs,       \* the HTTP requests: request slot -> handler state
  faults      \* storage failures so far

vars == <<events, bookings, counters, reqs, faults>>

db == <<events, bookings, counters>>

\* ------------------------------------------------------------ collections

\* a lookup without the filter: the first stored event, whatever its id
FindEventAny(eid) ==
  IF \E k \in DOMAIN events : events[k].present
  THEN CHOOSE k \in DOMAIN events :
         events[k].present /\ \A j \in DOMAIN events : events[j].present => k <= j
  ELSE 0

\* Event.findOne({ id }): the position of the first stored event with this id, 0 if none
FindEvent(eid) ==
  IF \E k \in DOMAIN events : events[k].present /\ events[k].id = eid
  THEN CHOOSE k \in DOMAIN events :
         /\ events[k].present /\ events[k].id = eid
         /\ \A j \in DOMAIN events : (events[j].present /\ events[j].id = eid) => k <= j
  ELSE 0

\* Booking.findOne({ id }): the position of the first booking with this id, 0 if none
FindBooking(bid) ==
  IF \E k \in DOMAIN bookings : bookings[k].id = bid
  THEN CHOOSE k \in DOMAIN bookings :
         /\ bookings[k].id = bid
         /\ \A j \in DOMAIN bookings : bookings[j].id = bid => k <= j
  ELSE 0

\* a counter update whose increment is lost once the counter exists
CounterIncLost(c, name) ==
  IF name \in DOMAIN c THEN c ELSE [n \in DOMAIN c \cup {name} |-> IF n = name THEN 1 ELSE c[n]]

\* an upsert that creates the counter at 0 and hands that out
CounterIncFromZero(c, name) ==
  [n \in DOMAIN c \cup {name} |->
     IF n = name THEN (IF name \in DOMAIN c THEN c[name] + 1 ELSE 0) ELSE c[n]]

\* Counter.findOneAndUpdate({ name }, { $inc: { seq: 1 } }, { new: true, upsert: true }):
\* the collection after the call; one atomic storage operation
CounterInc(c, name) ==
  [n \in DOMAIN c \cup {name} |->
     IF n = name THEN (IF name \in DOMAIN c THEN c[name] + 1 ELSE 1) ELSE c[n]]

\* the unique index on `id`: an insert of a document whose id is stored already fails
DuplicateEventId(eid) == \E k \in DOMAIN events : events[k].present /\ events[k].id = eid

DuplicateBookingId(bid) == \E k \in DOMAIN bookings : bookings[k].id = bid

\* --------------------------------------------------------------- requests

\* A request slot: the operation, where its handler stands, the request's inputs
\* (user, eventId, quantity, bookingId, totalTickets, page, limit), the handler's locals (the
\* loaded event `doc` and booking `booking` by position, the in-memory copies of
\* the fields it assigns, the paths it modified) and the response: its status
\* `res` and, for the reads, the documents it carries (`body`).
NoReq ==
  [op |-> "none", pc |-> "idle", user |-> "u1", eventId |-> 0, quantity |-> 0,
   bookingId |-> 0, doc |-> 0, booking |-> 0, availableTickets |-> 0,
   totalTickets |-> 0, price |-> 0, totalPrice |-> 0, id |-> 0,
   bookingDate |-> 0, modified |-> {}, page |-> 0, limit |-> 0,
   interestedCount |-> 0, interestedUsers |-> <<>>, version |-> 0,
   res |-> "none", body |-> <<>>]

\* request slots are taken in order
Free(p) == reqs[p].op = "none" /\ (IF p = 1 THEN TRUE ELSE reqs[p - 1].op # "none")

\* res.status(...).json(...): the handler returns; its locals are gone, the request
\* (operation and inputs) and the response remain
Respond(r, status) ==
  [NoReq EXCEPT !.op = r.op, !.pc = "done", !.res = status, !.eventId = r.eventId,
                !.quantity = r.quantity, !.bookingId = r.bookingId]

\* res.json(...) of a read: as Respond, with the requester and the documents sent
RespondWith(r, status, body) ==
  [Respond(r, status) EXCEPT !.user = r.user, !.page = r.page, !.limit = r.limit,
                             !.body = body]

AllDone == \A p \in Reqs : reqs[p].pc \in {"idle", "done"}

Init ==
  /\ events = <<>>
  /\ bookings = <<>>
  /\ counters = [n \in {} |-> 0]
  /\ reqs = [p \in Reqs |-> NoReq]
  /\ faults = 0

\* a storage write fails: the handler's catch block answers 500
StorageFault(p, pcs) ==
  /\ reqs[p].pc \in pcs
  /\ faults < MaxFaults
  /\ faults' = faults + 1
  /\ reqs' = [reqs EXCEPT ![p] = Respond(@, "500")]
  /\ UNCHANGED db

\* ------------------------------------------------------------ POST /events

\* a creation that puts no ticket on sale
CreateEventStartSoldOut(p, total, pr) ==
  /\ Free(p)
  /\ reqs' = [reqs EXCEPT ![p] =
       IF total < 1
       THEN Respond([NoReq EXCEPT !.op = "createEvent"], "400 validation")
       ELSE [NoReq EXCEPT !.op = "createEvent", !.pc = "eventCounter",
                          !.totalTickets = total, !.availableTickets = 0,
                          !.price = pr]]
  /\ UNCHANGED <<db, faults>>

\* validation (totalTickets isInt min 1), then new Event({...}) up to event.save()
CreateEventStart(p, total, pr) ==
  /\ Free(p)
  /\ reqs' = [reqs EXCEPT ![p] =
       IF total < 1
       THEN Respond([NoReq EXCEPT !.op = "createEvent"], "400 validation")
       ELSE [NoReq EXCEPT !.op = "createEvent", !.pc = "eventCounter",
                          !.totalTickets = total, !.availableTickets = total,
                          !.price = pr]]
  /\ UNCHANGED <<db, faults>>

\* await event.save(), eventSchema.pre('save'): this.id = counter.seq
CreateEventCounter(p) ==
  /\ reqs[p].op = "createEvent" /\ reqs[p].pc = "eventCounter"
  /\ counters' = CounterInc(counters, "eventId")
  /\ reqs' = [reqs EXCEPT ![p] = [@ EXCEPT !.pc = "eventInsert", !.id = counters'["eventId"]]]
  /\ UNCHANGED <<events, bookings, faults>>

\* await event.save(), the insert; then res.status(201)
CreateEventInsert(p) ==
  /\ reqs[p].op = "createEvent" /\ reqs[p].pc = "eventInsert"
  /\ IF DuplicateEventId(reqs[p].id)
     THEN /\ reqs' = [reqs EXCEPT ![p] = Respond(@, "500")]
          /\ UNCHANGED events
     ELSE /\ events' = Append(events,
                 [id |-> reqs[p].id, totalTickets |-> reqs[p].totalTickets,
                  availableTickets |-> reqs[p].availableTickets,
                  price |-> reqs[p].price, present |-> TRUE,
                  interestedCount |-> 0, interestedUsers |-> <<>>, version |-> 0])
          /\ reqs' = [reqs EXCEPT ![p] = Respond(@, "201")]
  /\ UNCHANGED <<bookings, counters, faults>>

\* ---------------------------------------------------------- POST /bookings

\* an availability check that also refuses the last tickets
NotEnoughTicketsOffByOne(available, quantity) == available <= quantity

\* the availability check of the handler, on the event as it was read
NotEnoughTickets(available, quantity) == available < quantity

\* a quantity rule that lets every integer through
InvalidQuantityNever(q) == FALSE

\* body('quantity').isInt({ min: 1 }): the request fails validation
InvalidQuantity(q) == q < 1

\* Date.now(), the default of bookingSchema.bookingDate.  The clock is read in
\* units of stored bookings: requests that overlap can read the same time, and a
\* request that arrives after a booking was stored reads a later time.
Now == Len(bookings) + 1

\* validationResult (quantity isInt min 1), Event.findOne, the availability check,
\* new Booking({...}) and event.availableTickets -= quantity, up to event.save()
CreateBookingStart(p, u, eid, q) ==
  /\ Free(p)
  /\ LET r == [NoReq EXCEPT !.op = "createBooking", !.user = u, !.eventId = eid,
                            !.quantity = q]
         k == FindEvent(eid)
     IN reqs' = [reqs EXCEPT ![p] =
          IF InvalidQuantity(q) THEN Respond(r, "400 validation")
          ELSE IF k = 0 THEN Respond(r, "404 event")
          ELSE IF NotEnoughTickets(events[k].availableTickets, q)
               THEN Respond(r, "400 tickets")
          ELSE [r EXCEPT !.pc = "bookingSaveEvent", !.doc = k,
                         !.availableTickets = events[k].availableTickets - q,
                         !.totalPrice = events[k].price * q,
                         !.bookingDate = Now]]
  /\ UNCHANGED <<db, faults>>

\* a handler that saves the booking first: the id is taken while the event's
\* decrement is still unwritten
CreateBookingSaveEventIdFirst(p) ==
  /\ reqs[p].op = "createBooking" /\ reqs[p].pc = "bookingSaveEvent"
  /\ counters' = CounterInc(counters, "bookingId")
  /\ reqs' = [reqs EXCEPT ![p].pc = "bookingCounter"]
  /\ UNCHANGED <<events, bookings, faults>>

\* await event.save(): $set availableTickets on the stored document (a document
\* deleted since it was loaded matches nothing: DocumentNotFoundError, caught, 500)
CreateBookingSaveEvent(p) ==
  /\ reqs[p].op = "createBooking" /\ reqs[p].pc = "bookingSaveEvent"
  /\ IF events[reqs[p].doc].present
     THEN /\ events' = [events EXCEPT
                         ![reqs[p].doc].availableTickets = reqs[p].availableTickets]
          /\ reqs' = [reqs EXCEPT ![p].pc = "bookingCounter"]
     ELSE /\ reqs' = [reqs EXCEPT ![p] = Respond(@, "500")]
          /\ UNCHANGED events
  /\ UNCHANGED <<bookings, counters, faults>>

\* await booking.save(), bookingSchema.pre('save'): this.id = counter.seq
CreateBookingCounter(p) ==
  /\ reqs[p].op = "createBooking" /\ reqs[p].pc = "bookingCounter"
  /\ counters' = CounterInc(counters, "bookingId")
  /\ reqs' = [reqs EXCEPT ![p] = [@ EXCEPT !.pc = "bookingInsert", !.id = counters'["bookingId"]]]
  /\ UNCHANGED <<events, bookings, faults>>

\* a schema default that stores new bookings as cancelled
DefaultStatusCancelled == "cancelled"

\* bookingSchema.status: the default a new booking gets
DefaultStatus == "active"

\* an insert that prices the booking from the event as stored at insert time
CreateBookingInsertRepriced(p) ==
  /\ reqs[p].op = "createBooking" /\ reqs[p].pc = "bookingInsert"
  /\ IF DuplicateBookingId(reqs[p].id)
     THEN /\ reqs' = [reqs EXCEPT ![p] = Respond(@, "500")]
          /\ UNCHANGED bookings
     ELSE /\ bookings' = Append(bookings,
                 [id |-> reqs[p].id, user |-> reqs[p].user, event |-> reqs[p].eventId,
                  quantity |-> reqs[p].quantity,
                  totalPrice |-> events[reqs[p].doc].price * reqs[p].quantity,
                  status |-> DefaultStatus, bookingDate |-> reqs[p].bookingDate])
          /\ reqs' = [reqs EXCEPT ![p] = Respond(@, "201")]
  /\ UNCHANGED <<events, counters, faults>>

\* await booking.save(), the insert; then res.status(201)
CreateBookingInsert(p) ==
  /\ reqs[p].op = "createBooking" /\ reqs[p].pc = "bookingInsert"
  /\ IF DuplicateBookingId(reqs[p].id)
     THEN /\ reqs' = [reqs EXCEPT ![p] = Respond(@, "500")]
          /\ UNCHANGED bookings
     ELSE /\ bookings' = Append(bookings,
                 [id |-> reqs[p].id, user |-> reqs[p].user, event |-> reqs[p].eventId,
                  quantity |-> reqs[p].quantity, totalPrice |-> reqs[p].totalPrice,
                  status |-> DefaultStatus, bookingDate |-> reqs[p].bookingDate])
          /\ reqs' = [reqs EXCEPT ![p] = Respond(@, "201")]
  /\ UNCHANGED <<events, counters, faults>>

\* ------------------------------------------------- PUT /bookings/:id/cancel

\* req.user.role: the users who are administrators (auth.middleware's isAdmin)
Admins == {"u2"}

\* booking.user.toString() !== req.user._id.toString(): the 403 condition of both
\* PUT /:id/cancel and GET /:id, for requester u and the booking at position b
NotAuthorized(u, b) == bookings[b].user # u

\* a handler that tests the status before the owner
CancelBookingStartStatusFirst(p, u, bid) ==
  /\ Free(p)
  /\ LET r == [NoReq EXCEPT !.op = "cancelBooking", !.user = u, !.bookingId = bid]
         b == FindBooking(bid)
     IN reqs' = [reqs EXCEPT ![p] =
          IF b = 0 THEN Respond(r, "404 booking")
          ELSE IF bookings[b].status = "cancelled" THEN Respond(r, "400 cancelled")
          ELSE IF NotAuthorized(u, b) THEN Respond(r, "403")
          ELSE [r EXCEPT !.pc = "cancelFindEvent", !.booking = b,
                         !.eventId = bookings[b].event,
                         !.quantity = bookings[b].quantity]]
  /\ UNCHANGED <<db, faults>>

\* Booking.findOne, the 404 / 403 / 400 checks, up to Event.findOne
CancelBookingStart(p, u, bid) ==
  /\ Free(p)
  /\ LET r == [NoReq EXCEPT !.op = "cancelBooking", !.user = u, !.bookingId = bid]
         b == FindBooking(bid)
     IN reqs' = [reqs EXCEPT ![p] =
          IF b = 0 THEN Respond(r, "404 booking")
          ELSE IF NotAuthorized(u, b) THEN Respond(r, "403")
          ELSE IF bookings[b].status = "cancelled" THEN Respond(r, "400 cancelled")
          ELSE [r EXCEPT !.pc = "cancelFindEvent", !.booking = b,
                         !.eventId = bookings[b].event,
                         !.quantity = bookings[b].quantity]]
  /\ UNCHANGED <<db, faults>>

\* a release that returns one ticket whatever the booking's quantity
CancelBookingFindEventOneTicket(p) ==
  /\ reqs[p].op = "cancelBooking" /\ reqs[p].pc = "cancelFindEvent"
  /\ LET k == FindEvent(reqs[p].eventId)
     IN reqs' = [reqs EXCEPT ![p] =
          IF k = 0 THEN Respond(@, "500")
          ELSE [@ EXCEPT !.pc = "cancelSaveEvent", !.doc = k,
                         !.availableTickets = events[k].availableTickets + 1]]
  /\ UNCHANGED <<db, faults>>

\* await Event.findOne({ id: booking.event }); event.availableTickets += booking.quantity
\* (a missing event is a TypeError, answered 500 by the catch block)
CancelBookingFindEvent(p) ==
  /\ reqs[p].op = "cancelBooking" /\ reqs[p].pc = "cancelFindEvent"
  /\ LET k == FindEvent(reqs[p].eventId)
     IN reqs' = [reqs EXCEPT ![p] =
          IF k = 0 THEN Respond(@, "500")
          ELSE [@ EXCEPT !.pc = "cancelSaveEvent", !.doc = k,
                         !.availableTickets =
                            events[k].availableTickets + reqs[p].quantity]]
  /\ UNCHANGED <<db, faults>>

\* await event.save(); booking.status = 'cancelled' (a document deleted since it
\* was loaded: DocumentNotFoundError, caught, 500)
CancelBookingSaveEvent(p) ==
  /\ reqs[p].op = "cancelBooking" /\ reqs[p].pc = "cancelSaveEvent"
  /\ IF events[reqs[p].doc].present
     THEN /\ events' = [events EXCEPT
                         ![reqs[p].doc].availableTickets = reqs[p].availableTickets]
          /\ reqs' = [reqs EXCEPT ![p].pc = "cancelSaveBooking"]
     ELSE /\ reqs' = [reqs EXCEPT ![p] = Respond(@, "500")]
          /\ UNCHANGED events
  /\ UNCHANGED <<bookings, counters, faults>>

\* a status save that also zeroes the cancelled booking's totalPrice
CancelBookingSaveBookingRefund(p) ==
  /\ reqs[p].op = "cancelBooking" /\ reqs[p].pc = "cancelSaveBooking"
  /\ bookings' = [bookings EXCEPT ![reqs[p].booking].status = "cancelled",
                                  ![reqs[p].booking].totalPrice = 0]
  /\ reqs' = [reqs EXCEPT ![p] = Respond(@, "200")]
  /\ UNCHANGED <<events, counters, faults>>

\* a status save that releases the booking's tickets a second time
CancelBookingSaveBookingAndEvent(p) ==
  /\ reqs[p].op = "cancelBooking" /\ reqs[p].pc = "cancelSaveBooking"
  /\ bookings' = [bookings EXCEPT ![reqs[p].booking].status = "cancelled"]
  /\ events' = [events EXCEPT ![reqs[p].doc].availableTickets = @ + reqs[p].quantity]
  /\ reqs' = [reqs EXCEPT ![p] = Respond(@, "200")]
  /\ UNCHANGED <<counters, faults>>

\* await booking.save(): $set status; then res.json
CancelBookingSaveBooking(p) ==
  /\ reqs[p].op = "cancelBooking" /\ reqs[p].pc = "cancelSaveBooking"
  /\ bookings' = [bookings EXCEPT ![reqs[p].booking].status = "cancelled"]
  /\ reqs' = [reqs EXCEPT ![p] = Respond(@, "200")]
  /\ UNCHANGED <<events, counters, faults>>

\* -------------------------------------------------------- GET /bookings/:id

\* populate({ path: 'event' }) looks the booking's `event` up in Event._id, an
\* ObjectId; the path holds the event's integer id (type: Number, ref: "Event"),
\* and no integer casts to an ObjectId: Mongoose throws a CastError
CastsToObjectId(v) == v \notin Int

\* Booking.findOne({ id }).populate(...), the 404 and 403 checks, res.json(booking);
\* a CastError of the populate is caught: 500
GetBooking(p, u, bid) ==
  /\ Free(p)
  /\ LET r == [NoReq EXCEPT !.op = "getBooking", !.user = u, !.bookingId = bid]
         b == FindBooking(bid)
     IN reqs' = [reqs EXCEPT ![p] =
          IF b = 0 THEN RespondWith(r, "404 booking", <<>>)
          ELSE IF ~CastsToObjectId(bookings[b].event) THEN RespondWith(r, "500", <<>>)
          ELSE IF NotAuthorized(u, b) THEN RespondWith(r, "403", <<>>)
          ELSE RespondWith(r, "200", <<bookings[b]>>)]
  /\ UNCHANGED <<db, faults>>

\* ---------------------------------------------------- GET /bookings/my-bookings

DefaultLimit == 10

\* parseInt(req.query.page) || 1 and parseInt(req.query.limit) || 10: a missing
\* or zero value (0 here) takes the default
PageOf(page) == IF page = 0 THEN 1 ELSE page
LimitOf(limit) == IF limit = 0 THEN DefaultLimit ELSE limit

\* a skip that starts one page late
SkipPageTimesLimit(page, limit) == page * limit

\* const skip = (page - 1) * limit
Skip(page, limit) == (page - 1) * limit

\* Booking.find({ user }): the positions of the user's bookings
UserBookings(u) == {k \in DOMAIN bookings : bookings[k].user = u}

\* .sort({ bookingDate: -1 }): the orders in which the storage can return the
\* documents S; documents with equal bookingDate come in either order
SortedByDateDesc(S) ==
  {s \in [1..Cardinality(S) -> S] :
     /\ \A i, j \in DOMAIN s : s[i] = s[j] => i = j
     /\ \A i, j \in DOMAIN s : i < j => bookings[s[i]].bookingDate >= bookings[s[j]].bookingDate}

\* .skip(skip).limit(limit) on the ordered documents
PageSlice(s, skip, limit) ==
  SubSeq(s, skip + 1, IF skip + limit < Len(s) THEN skip + limit ELSE Len(s))

\* the query of the handler and res.json({ bookings, ... }).  The events joined
\* to the bookings and the page counts (further reads) are not part of the state.
ListBookings(p, u, page, limit) ==
  /\ Free(p)
  /\ \E s \in SortedByDateDesc(UserBookings(u)) :
       LET r == [NoReq EXCEPT !.op = "listBookings", !.user = u,
                              !.page = page, !.limit = limit]
           found == PageSlice(s, Skip(PageOf(page), LimitOf(limit)), LimitOf(limit))
       IN reqs' = [reqs EXCEPT ![p] =
            RespondWith(r, "200", [i \in DOMAIN found |-> bookings[found[i]]])]
  /\ UNCHANGED <<db, faults>>

\* ---------------------------------------------------------- PUT /events/:id

\* A request body: the set of fields it carries (`has`) and their values.  The
\* Event paths a body can name are those the handlers here read or write.
EventPaths == {"totalTickets", "availableTickets", "price", "id"}

EmptyBody ==
  [has |-> {}, totalTickets |-> 0, availableTickets |-> 0, price |-> 0, id |-> 0]

Body(field, value) == [EmptyBody EXCEPT !.has = {field}, ![field] = value]

\* an update that records the new totalTickets and leaves availableTickets as
\* it was read
UpdateEventStartNoShift(p, eid, body) ==
  /\ Free(p)
  /\ LET r == [NoReq EXCEPT !.op = "updateEvent", !.eventId = eid]
         k == FindEvent(eid)
         assigned == [f \in EventPaths |->
                        IF f \in body.has THEN body[f] ELSE events[k][f]]
     IN reqs' = [reqs EXCEPT ![p] =
          IF k = 0 THEN Respond(r, "404 event")
          ELSE [r EXCEPT !.pc = "updateSaveEvent", !.doc = k,
                         !.totalTickets = assigned.totalTickets,
                         !.availableTickets = assigned.availableTickets,
                         !.price = assigned.price, !.id = assigned.id,
                         !.modified = {f \in EventPaths : assigned[f] # events[k][f]}]]
  /\ UNCHANGED <<db, faults>>

\* Event.findOne, updates = { ...req.body }, the totalTickets arithmetic and its
\* 400, Object.assign(event, updates), up to event.save().  A totalTickets field
\* is a form field, so "0" counts as given.  Object.assign copies every field of
\* the body onto the document; a path is modified when its value changes.
UpdateEventStart(p, eid, body) ==
  /\ Free(p)
  /\ LET r == [NoReq EXCEPT !.op = "updateEvent", !.eventId = eid]
         k == FindEvent(eid)
         updates ==
           IF "totalTickets" \in body.has
           THEN [body EXCEPT !.has = @ \cup {"availableTickets"},
                             !.availableTickets = events[k].availableTickets
                                 + (body.totalTickets - events[k].totalTickets)]
           ELSE body
         assigned == [f \in EventPaths |->
                        IF f \in updates.has THEN updates[f] ELSE events[k][f]]
     IN reqs' = [reqs EXCEPT ![p] =
          IF k = 0 THEN Respond(r, "404 event")
          ELSE IF "totalTickets" \in body.has /\ updates.availableTickets < 0
               THEN Respond(r, "400 total")
          ELSE [r EXCEPT !.pc = "updateSaveEvent", !.doc = k,
                         !.totalTickets = assigned.totalTickets,
                         !.availableTickets = assigned.availableTickets,
                         !.price = assigned.price, !.id = assigned.id,
                         !.modified = {f \in EventPaths : assigned[f] # events[k][f]}]]
  /\ UNCHANGED <<db, faults>>

\* the unique index on `id`, for an update of the document at position k
DuplicateEventIdOf(k, eid) ==
  \E j \in DOMAIN events : j # k /\ events[j].present /\ events[j].id = eid

\* await event.save(): schema validation (totalTickets min 1), then $set of the
\* modified paths on the document (DocumentNotFoundError if it was deleted, a
\* duplicate key error if the new id is taken: both caught, 500); then res.json
UpdateEventSave(p) ==
  /\ reqs[p].op = "updateEvent" /\ reqs[p].pc = "updateSaveEvent"
  /\ LET k == reqs[p].doc
     IN IF \/ reqs[p].totalTickets < 1
           \/ ~events[k].present
           \/ ("id" \in reqs[p].modified /\ DuplicateEventIdOf(k, reqs[p].id))
        THEN /\ reqs' = [reqs EXCEPT ![p] = Respond(@, "500")]
             /\ UNCHANGED events
        ELSE /\ events' = [events EXCEPT ![k] =
                  [f \in DOMAIN events[k] |->
                     IF f \in reqs[p].modified THEN reqs[p][f] ELSE events[k][f]]]
             /\ reqs' = [reqs EXCEPT ![p] = Respond(@, "200")]
  /\ UNCHANGED <<bookings, counters, faults>>

\* ------------------------------------------------------- DELETE /events/:id

\* Event.findOneAndDelete({ id }): one atomic storage operation; the bookings
\* collection is not touched
DeleteEvent(p, eid) ==
  /\ Free(p)
  /\ LET r == [NoReq EXCEPT !.op = "deleteEvent", !.eventId = eid]
         k == FindEvent(eid)
     IN IF k = 0
        THEN /\ reqs' = [reqs EXCEPT ![p] = Respond(r, "404 event")]
             /\ UNCHANGED events
        ELSE /\ events' = [events EXCEPT ![k].present = FALSE]
             /\ reqs' = [reqs EXCEPT ![p] = Respond(r, "200")]
  /\ UNCHANGED <<bookings, counters, faults>>

\* ------------------------------------- POST, DELETE /events/:id/favorite

\* event.interestedUsers.includes(req.user._id)
Includes(users, u) == \E i \in DOMAIN users : users[i] = u

\* event.interestedUsers.filter((userId) => userId.toString() !== ...)
Filter(users, u) == SelectSeq(users, LAMBDA v : v # u)

\* POST /events/:id/favorite up to event.save(): Event.findOne, the 404, the 400
\* of an event already in the requester's favorites, interestedUsers.push and
\* interestedCount += 1 on the loaded document
AddFavoriteStart(p, u, eid) ==
  /\ Free(p)
  /\ LET r == [NoReq EXCEPT !.op = "addFavorite", !.user = u, !.eventId = eid]
         k == FindEvent(eid)
     IN reqs' = [reqs EXCEPT ![p] =
          IF k = 0 THEN Respond(r, "404 event")
          ELSE IF Includes(events[k].interestedUsers, u)
               THEN Respond(r, "400 favorite")
          ELSE [r EXCEPT !.pc = "favoriteSaveEvent", !.doc = k,
                         !.interestedCount = events[k].interestedCount + 1]]
  /\ UNCHANGED <<db, faults>>

\* await event.save() after a push: one update that appends the requester to
\* the stored array ($push), sets interestedCount to the value computed from the
\* loaded document ($set) and increments the version key, without a condition
\* on the version; then res.json
AddFavoriteSave(p) ==
  /\ reqs[p].op = "addFavorite" /\ reqs[p].pc = "favoriteSaveEvent"
  /\ LET k == reqs[p].doc
     IN IF ~events[k].present
        THEN /\ reqs' = [reqs EXCEPT ![p] = Respond(@, "500")]
             /\ UNCHANGED events
        ELSE /\ events' = [events EXCEPT
                  ![k].interestedUsers = Append(@, reqs[p].user),
                  ![k].interestedCount = reqs[p].interestedCount,
                  ![k].version = @ + 1]
             /\ reqs' = [reqs EXCEPT ![p] = Respond(@, "200")]
  /\ UNCHANGED <<bookings, counters, faults>>

\* DELETE /events/:id/favorite up to event.save(): Event.findOne, the 404, the
\* 400 of an event not in the requester's favorites, the filtered array
\* assigned to interestedUsers and interestedCount -= 1 on the loaded document
RemoveFavoriteStart(p, u, eid) ==
  /\ Free(p)
  /\ LET r == [NoReq EXCEPT !.op = "removeFavorite", !.user = u, !.eventId = eid]
         k == FindEvent(eid)
     IN reqs' = [reqs EXCEPT ![p] =
          IF k = 0 THEN Respond(r, "404 event")
          ELSE IF ~Includes(events[k].interestedUsers, u)
               THEN Respond(r, "400 not favorite")
          ELSE [r EXCEPT !.pc = "unfavoriteSaveEvent", !.doc = k,
                         !.interestedUsers = Filter(events[k].interestedUsers, u),
                         !.interestedCount = events[k].interestedCount - 1,
                         !.version = events[k].version]]
  /\ UNCHANGED <<db, faults>>

\* await event.save() after an array path was assigned: one update that sets the
\* whole array and interestedCount ($set) and increments the version key, on
\* condition that the stored version is the loaded one (otherwise VersionError,
\* caught, 500); then res.json
RemoveFavoriteSave(p) ==
  /\ reqs[p].op = "removeFavorite" /\ reqs[p].pc = "unfavoriteSaveEvent"
  /\ LET k == reqs[p].doc
     IN IF ~events[k].present \/ events[k].version # reqs[p].version
        THEN /\ reqs' = [reqs EXCEPT ![p] = Respond(@, "500")]
             /\ UNCHANGED events
        ELSE /\ events' = [events EXCEPT
                  ![k].interestedUsers = reqs[p].interestedUsers,
                  ![k].interestedCount = reqs[p].interestedCount,
                  ![k].version = @ + 1]
             /\ reqs' = [reqs EXCEPT ![p] = Respond(@, "200")]
  /\ UNCHANGED <<bookings, counters, faults>>

\* ------------------------------------------------------------ specification

\* the handler positions at which the next storage call is a write
WritePcs ==
  {"eventCounter", "eventInsert", "bookingSaveEvent", "bookingCounter", "bookingInsert",
   "cancelSaveEvent", "cancelSaveBooking", "updateSaveEvent"}

\* the ids requests name: the first id of each namespace and the one after it
\* (stored or not, as the run goes)
EventIds == {1, 2}
BookingIds == {1, 2}

\* PUT /events/:id bodies: without any Event path, or with a totalTickets field
UpdateBodies == {EmptyBody} \cup {Body("totalTickets", t) : t \in 0..MaxTickets}

Next ==
  \/ \E p \in Reqs, total \in 0..MaxTickets, pr \in Prices : CreateEventStart(p, total, pr)
  \/ \E p \in Reqs : CreateEventCounter(p)
  \/ \E p \in Reqs : CreateEventInsert(p)
  \/ \E p \in Reqs, u \in Users, eid \in EventIds, q \in 0..MaxQty :
       CreateBookingStart(p, u, eid, q)
  \/ \E p \in Reqs : CreateBookingSaveEvent(p)
  \/ \E p \in Reqs : CreateBookingCounter(p)
  \/ \E p \in Reqs : CreateBookingInsert(p)
  \/ \E p \in Reqs, u \in Users, bid \in BookingIds : CancelBookingStart(p, u, bid)
  \/ \E p \in Reqs : CancelBookingFindEvent(p)
  \/ \E p \in Reqs : CancelBookingSaveEvent(p)
  \/ \E p \in Reqs : CancelBookingSaveBooking(p)
  \/ \E p \in Reqs, eid \in EventIds, b \in UpdateBodies :
       UpdateEventStart(p, eid, b)
  \/ \E p \in Reqs : UpdateEventSave(p)
  \/ \E p \in Reqs : StorageFault(p, WritePcs)

\* The whole system, from empty collections.
Spec == Init /\ [][Next]_vars

\* The system with one event and one booking on it stored: the state after
\* POST /events (totalTickets t), POST /bookings (quantity 1, user u1) and, when
\* the booking is cancelled, PUT /bookings/1/cancel ran one after the other from
\* Init (three requests, each answered before the next arrives).
InitBooked ==
  \E t \in 1..MaxTickets, pr \in Prices, st \in {"active", "cancelled"} :
    /\ events = <<[id |-> 1, totalTickets |-> t,
                   availableTickets |-> IF st = "active" THEN t - 1 ELSE t,
                   price |-> pr, present |-> TRUE,
                   interestedCount |-> 0, interestedUsers |-> <<>>, version |-> 0]>>
    /\ bookings = <<[id |-> 1, user |-> "u1", event |-> 1, quantity |-> 1,
                     totalPrice |-> pr, status |-> st, bookingDate |-> 1]>>
    /\ counters = [n \in {"eventId", "bookingId"} |-> 1]
    /\ reqs = [p \in Reqs |-> NoReq]
    /\ faults = 0

SpecBooked == InitBooked /\ [][Next]_vars

\* MaxReqs POST /bookings requests racing for one stored event with all of its
\* n tickets available (the state after one POST /events from Init); no storage
\* failure.
InitRace ==
  \E n \in 1..MaxTickets, pr \in Prices :
    /\ events = <<[id |-> 1, totalTickets |-> n, availableTickets |-> n,
                   price |-> pr, present |-> TRUE,
                   interestedCount |-> 0, interestedUsers |-> <<>>, version |-> 0]>>
    /\ bookings = <<>>
    /\ counters = [n2 \in {"eventId"} |-> 1]
    /\ reqs = [p \in Reqs |-> NoReq]
    /\ faults = 0

NextRace ==
  \/ \E p \in Reqs, u \in Users, q \in 1..MaxQty : CreateBookingStart(p, u, 1, q)
  \/ \E p \in Reqs : CreateBookingSaveEvent(p)
  \/ \E p \in Reqs : CreateBookingCounter(p)
  \/ \E p \in Reqs : CreateBookingInsert(p)

SpecRace == InitRace /\ [][NextRace]_vars

\* The catalogue maintained while bookings go on: from the stored event and
\* booking of InitBooked, PUT /events/:id with a body that carries one Event path
\* (totalTickets, availableTickets, price or id) and DELETE /events/:id, next to
\* POST /bookings and PUT /bookings/:id/cancel; no storage failure.
UpdatePrices == {7}

CatalogBodies ==
  UpdateBodies
    \cup {Body("availableTickets", a) : a \in 0..MaxTickets}
    \cup {Body("price", pr) : pr \in UpdatePrices}
    \cup {Body("id", i) : i \in EventIds}

NextCatalog ==
  \/ \E p \in Reqs, u \in Users, eid \in EventIds, q \in 1..MaxQty :
       CreateBookingStart(p, u, eid, q)
  \/ \E p \in Reqs : CreateBookingSaveEvent(p)
  \/ \E p \in Reqs : CreateBookingCounter(p)
  \/ \E p \in Reqs : CreateBookingInsert(p)
  \/ \E p \in Reqs, u \in Users, bid \in BookingIds : CancelBookingStart(p, u, bid)
  \/ \E p \in Reqs : CancelBookingFindEvent(p)
  \/ \E p \in Reqs : CancelBookingSaveEvent(p)
  \/ \E p \in Reqs : CancelBookingSaveBooking(p)
  \/ \E p \in Reqs, eid \in EventIds, b \in CatalogBodies : UpdateEventStart(p, eid, b)
  \/ \E p \in Reqs : UpdateEventSave(p)
  \/ \E p \in Reqs, eid \in EventIds : DeleteEvent(p, eid)

SpecCatalog == InitBooked /\ [][NextCatalog]_vars

\* Reading the bookings while they are cancelled: one event with three bookings
\* of quantity 1 on it, the state after POST /events and three POST /bookings
\* (the first by u1, the last two either one after the other or overlapping, so
\* with equal bookingDate) and, when the first booking is cancelled,
\* PUT /bookings/1/cancel.
InitListed ==
  \E pr \in Prices, u2 \in Users, u3 \in Users, d3 \in {2, 3},
     st \in {"active", "cancelled"} :
    LET Doc(i, u, s, d) ==
          [id |-> i, user |-> u, event |-> 1, quantity |-> 1, totalPrice |-> pr,
           status |-> s, bookingDate |-> d]
    IN /\ events = <<[id |-> 1, totalTickets |-> 3,
                      availableTickets |-> IF st = "active" THEN 0 ELSE 1,
                      price |-> pr, present |-> TRUE,
                      interestedCount |-> 0, interestedUsers |-> <<>>, version |-> 0]>>
       /\ bookings = <<Doc(1, "u1", st, 1), Doc(2, u2, "active", 2),
                       Doc(3, u3, "active", d3)>>
       /\ counters = [n \in {"eventId", "bookingId"} |-> IF n = "eventId" THEN 1 ELSE 3]
       /\ reqs = [p \in Reqs |-> NoReq]
       /\ faults = 0

\* the booking ids the reads and cancels name: the stored ones and one that is not
ListedIds == 1..4

\* the page and limit query values: missing (0), 1 and 2
PageValues == 0..2

NextRead ==
  \/ \E p \in Reqs, u \in Users, bid \in ListedIds : GetBooking(p, u, bid)
  \/ \E p \in Reqs, u \in Users, page \in PageValues, limit \in PageValues :
       ListBookings(p, u, page, limit)
  \/ \E p \in Reqs, u \in Users, bid \in ListedIds : CancelBookingStart(p, u, bid)
  \/ \E p \in Reqs : CancelBookingFindEvent(p)
  \/ \E p \in Reqs : CancelBookingSaveEvent(p)
  \/ \E p \in Reqs : CancelBookingSaveBooking(p)

SpecRead == InitListed /\ [][NextRead]_vars

\* The capacity of the stored event changed while bookings go on: from the
\* stored event and booking of InitBooked, PUT /events/:id with a totalTickets
\* field (up to one more than any stored capacity), next to POST /bookings and
\* PUT /bookings/:id/cancel; no storage failure.
TotalsBodies == {Body("totalTickets", t) : t \in 0..MaxTickets + 1}

NextUpdate ==
  \/ \E p \in Reqs, u \in Users, eid \in EventIds, q \in 1..MaxQty :
       CreateBookingStart(p, u, eid, q)
  \/ \E p \in Reqs : CreateBookingSaveEvent(p)
  \/ \E p \in Reqs : CreateBookingCounter(p)
  \/ \E p \in Reqs : CreateBookingInsert(p)
  \/ \E p \in Reqs, u \in Users, bid \in BookingIds : CancelBookingStart(p, u, bid)
  \/ \E p \in Reqs : CancelBookingFindEvent(p)
  \/ \E p \in Reqs : CancelBookingSaveEvent(p)
  \/ \E p \in Reqs : CancelBookingSaveBooking(p)
  \/ \E p \in Reqs, eid \in EventIds, b \in TotalsBodies : UpdateEventStart(p, eid, b)
  \/ \E p \in Reqs : UpdateEventSave(p)

SpecUpdate == InitBooked /\ [][NextUpdate]_vars

\* The first allocations: from empty collections, POST /events and POST
\* /bookings, with storage failures.
NextFresh ==
  \/ \E p \in Reqs, total \in 0..MaxTickets, pr \in Prices : CreateEventStart(p, total, pr)
  \/ \E p \in Reqs : CreateEventCounter(p)
  \/ \E p \in Reqs : CreateEventInsert(p)
  \/ \E p \in Reqs, u \in Users, eid \in EventIds, q \in 0..MaxQty :
       CreateBookingStart(p, u, eid, q)
  \/ \E p \in Reqs : CreateBookingSaveEvent(p)
  \/ \E p \in Reqs : CreateBookingCounter(p)
  \/ \E p \in Reqs : CreateBookingInsert(p)
  \/ \E p \in Reqs : StorageFault(p, WritePcs)

SpecFresh == Init /\ [][NextFresh]_vars

\* The favorites of one stored event: the state after POST /events and, when
\* u1 has the event in its favorites, one POST /events/1/favorite by u1; then
\* add-favorite and remove-favorite requests, with storage failures.
InitFavorites ==
  \E n \in 1..MaxTickets, pr \in Prices, fav \in BOOLEAN :
    /\ events = <<[id |-> 1, totalTickets |-> n, availableTickets |-> n,
                   price |-> pr, present |-> TRUE,
                   interestedCount |-> IF fav THEN 1 ELSE 0,
                   interestedUsers |-> IF fav THEN <<"u1">> ELSE <<>>,
                   version |-> IF fav THEN 1 ELSE 0]>>
    /\ bookings = <<>>
    /\ counters = [n2 \in {"eventId"} |-> 1]
    /\ reqs = [p \in Reqs |-> NoReq]
    /\ faults = 0

FavoritePcs == {"favoriteSaveEvent", "unfavoriteSaveEvent"}

NextFavorites ==
  \/ \E p \in Reqs, u \in Users, eid \in EventIds : AddFavoriteStart(p, u, eid)
  \/ \E p \in Reqs : AddFavoriteSave(p)
  \/ \E p \in Reqs, u \in Users, eid \in EventIds : RemoveFavoriteStart(p, u, eid)
  \/ \E p \in Reqs : RemoveFavoriteSave(p)
  \/ \E p \in Reqs : StorageFault(p, FavoritePcs)

SpecFavorites == InitFavorites /\ [][NextFavorites]_vars

\* ------------------------------------------------------------------ claims

RECURSIVE SumActiveUpTo(_, _)
SumActiveUpTo(eid, n) ==
  IF n = 0 THEN 0
  ELSE SumActiveUpTo(eid, n - 1) +
       (IF bookings[n].event = eid /\ bookings[n].status = "active"
        THEN bookings[n].quantity ELSE 0)

\* the sum of quantity over the active bookings on event eid
SumActive(eid) == SumActiveUpTo(eid, Len(bookings))

Answered(status) == {p \in Reqs : reqs[p].pc = "done" /\ reqs[p].res = status}

\* C1: once every request has been answered and no storage call failed, each
\* event has availableTickets + (sum of quantity of its active bookings) =
\* totalTickets.
C1_Conservation ==
  (AllDone /\ faults = 0) =>
    \A k \in DOMAIN events :
      events[k].present =>
        events[k].availableTickets + SumActive(events[k].id) = events[k].totalTickets

\* C2: in every reachable state the active bookings of an event never hold more
\* tickets than its totalTickets.
C2_NoOverselling ==
  \A k \in DOMAIN events :
    events[k].present => SumActive(events[k].id) <= events[k].totalTickets

\* C3: M = MaxReqs requests of quantity 1 on an event that had N < M tickets
\* available end with exactly N answers 201 and M - N answers "not enough tickets".
C3_ExactlyNSucceed ==
  (/\ MaxReqs > events[1].totalTickets
   /\ \A p \in Reqs : reqs[p].pc = "done" /\ reqs[p].quantity = 1)
  => /\ Cardinality(Answered("201")) = events[1].totalTickets
     /\ Cardinality(Answered("400 tickets")) = MaxReqs - events[1].totalTickets

\* the holders of an id of a namespace: stored documents and requests that were
\* handed an id and have not inserted yet
BookingIdHolders == {p \in Reqs : reqs[p].op = "createBooking" /\ reqs[p].pc = "bookingInsert"}
EventIdHolders == {p \in Reqs : reqs[p].op = "createEvent" /\ reqs[p].pc = "eventInsert"}

DistinctIds(docs, holders) ==
  /\ \A j, k \in DOMAIN docs : j # k => docs[j].id # docs[k].id
  /\ \A p, q \in holders : p # q => reqs[p].id # reqs[q].id
  /\ \A p \in holders : \A k \in DOMAIN docs : reqs[p].id # docs[k].id

GreaterThanIssued(newId, docs, holders, name) ==
  /\ \A k \in DOMAIN docs : newId > docs[k].id
  /\ \A q \in holders : newId > reqs[q].id
  /\ name \in DOMAIN counters => newId > counters[name]

\* C4: every id a creation is handed is greater than every id handed out before
\* in its namespace (bookings, events), and the ids held by stored documents and
\* by creations in flight are pairwise distinct.
C4_IdsUniqueIncreasing ==
  [][/\ \A p \in Reqs :
          /\ (reqs[p].pc = "bookingCounter" /\ reqs'[p].pc = "bookingInsert") =>
               GreaterThanIssued(reqs'[p].id, bookings, BookingIdHolders, "bookingId")
          /\ (reqs[p].pc = "eventCounter" /\ reqs'[p].pc = "eventInsert") =>
               GreaterThanIssued(reqs'[p].id, events, EventIdHolders, "eventId")
     /\ DistinctIds(bookings, BookingIdHolders)'
     /\ DistinctIds(events, EventIdHolders)'
    ]_vars

\* C4 witness: two booking creations in flight at once, each holding its id, after
\* the event's own id was issued
C4_Witness ==
  /\ Cardinality(BookingIdHolders) = 2
  /\ Len(events) = 1

\* the cancel requests for booking id bid that have written the release to the event
Released(bid) ==
  {p \in Reqs : /\ reqs[p].op = "cancelBooking" /\ reqs[p].bookingId = bid
                /\ (reqs[p].pc = "cancelSaveBooking" \/ reqs[p].res = "200")}

\* C5: over any interleaving of cancel requests, the quantity of a booking is
\* released to its event at most once.
C5_ReleasedAtMostOnce ==
  \A b \in DOMAIN bookings : Cardinality(Released(bookings[b].id)) <= 1

\* C6: when persisting the booking fails after the decrement was written, the
\* step that answers the error gives the quantity back to the event.
C6_Compensation ==
  [][\A p \in Reqs :
       (/\ reqs[p].op = "createBooking"
        /\ reqs[p].pc \in {"bookingCounter", "bookingInsert"}
        /\ reqs'[p].res = "500")
       => events'[reqs[p].doc].availableTickets =
            events[reqs[p].doc].availableTickets + reqs[p].quantity
    ]_vars

\* C7: in every reachable state every event has 0 <= availableTickets <= totalTickets.
C7_AvailableBounds ==
  \A k \in DOMAIN events :
    events[k].present =>
      /\ 0 <= events[k].availableTickets
      /\ events[k].availableTickets <= events[k].totalTickets

\* C8: a create-booking request for an existing event is answered "not enough
\* tickets" exactly when its quantity exceeds the event's availableTickets, and
\* that answer comes with no event, booking or counter changed and no id taken.
C8_RejectedNoEffect ==
  [][\A p \in Reqs :
       (/\ reqs[p].op = "none" /\ reqs'[p].op = "createBooking"
        /\ reqs'[p].quantity >= 1
        /\ FindEvent(reqs'[p].eventId) # 0)
       => /\ (reqs'[p].res = "400 tickets") <=>
               (reqs'[p].quantity >
                  events[FindEvent(reqs'[p].eventId)].availableTickets)
          /\ (reqs'[p].res = "400 tickets") =>
               (db' = db /\ reqs'[p].pc = "done" /\ reqs'[p].id = 0)
    ]_vars

\* C8 witness: a request asking for more than the event has available was answered
\* "not enough tickets", and the collections hold what they held before it
C8_Witness ==
  /\ \E p \in Answered("400 tickets") :
       reqs[p].eventId = 1 /\ reqs[p].quantity > events[1].availableTickets
  /\ Len(bookings) = 1
  /\ counters["bookingId"] = 1
  /\ AllDone

\* C9: on an event that had 2 tickets available, a request of quantity 2 and a
\* request of quantity 1 end with exactly one 201 and one "not enough tickets",
\* and availableTickets is 2 minus the quantity that was booked.
C9_ExactlyOneSucceeds ==
  (/\ events[1].totalTickets = 2
   /\ reqs[1].pc = "done" /\ reqs[2].pc = "done"
   /\ \A p \in Reqs : p > 2 => reqs[p].op = "none"
   /\ {reqs[1].quantity, reqs[2].quantity} = {1, 2})
  => /\ Cardinality(Answered("201")) = 1
     /\ Cardinality(Answered("400 tickets")) = 1
     /\ \A p \in Answered("201") :
          events[1].availableTickets = 2 - reqs[p].quantity

\* C10: a booking is stored with status active; afterwards its status either stays
\* or goes from active to cancelled; no booking is removed.
C10_StatusMachine ==
  [][/\ Len(bookings') >= Len(bookings)
     /\ \A k \in DOMAIN bookings' :
          IF k \in DOMAIN bookings
          THEN \/ bookings'[k].status = bookings[k].status
               \/ bookings[k].status = "active" /\ bookings'[k].status = "cancelled"
          ELSE bookings'[k].status = "active"
    ]_vars

\* C10 witness: two cancel requests for the stored booking ran at once, both were
\* answered 200, and the booking is cancelled
C10_Witness ==
  /\ bookings[1].status = "cancelled"
  /\ Cardinality({p \in Answered("200") :
                    reqs[p].op = "cancelBooking" /\ reqs[p].bookingId = 1}) = 2

\* C11: a cancel request that ends in a storage failure (500) has no partial
\* effect.  Stated for the request that runs alone on the stored active booking:
\* after its 500 the booking is still active and the event's availableTickets is
\* what it was before the request (totalTickets minus the booking's quantity 1).
C11_CancelNoPartialEffect ==
  (/\ reqs[1].op = "cancelBooking" /\ reqs[1].bookingId = 1
   /\ reqs[1].pc = "done" /\ reqs[1].res = "500"
   /\ \A p \in Reqs : p > 1 => reqs[p].op = "none")
  => /\ bookings[1].status = "active"
     /\ events[1].availableTickets = events[1].totalTickets - 1

\* the requests that were answered with a success, and what each did to
\* availableTickets: a reservation takes its quantity, a release returns it
Reserved == {p \in Answered("201") : reqs[p].op = "createBooking"}
ReleasedBy == {p \in Answered("200") : reqs[p].op = "cancelBooking"}

Effect(p) ==
  IF p \in Reserved THEN 0 - reqs[p].quantity
  ELSE IF p \in ReleasedBy THEN reqs[p].quantity
  ELSE 0

RECURSIVE SumEffects(_)
SumEffects(n) == IF n = 0 THEN 0 ELSE Effect(n) + SumEffects(n - 1)

\* availableTickets of the stored event before the first request: its
\* totalTickets minus the stored booking's quantity 1 if that booking was active
InitialAvailable ==
  events[1].totalTickets
    - (IF bookings[1].status = "active" \/ \E p \in ReleasedBy : reqs[p].bookingId = 1
       THEN 1 ELSE 0)

\* C12: no update of availableTickets is lost.  When every request of the run was
\* a create-booking or a cancel-booking on the stored event, all succeeded and no
\* booking was cancelled twice, availableTickets is its initial value minus every
\* reserved quantity plus every released quantity.
C12_NoLostUpdate ==
  (/\ Reserved \cup ReleasedBy = Reqs
   /\ \A p, r \in ReleasedBy : reqs[p].bookingId = reqs[r].bookingId => p = r)
  => events[1].availableTickets = InitialAvailable + SumEffects(MaxReqs)

\* C13: cancel-booking is forbidden exactly when the requester is neither the
\* booking's owner nor an administrator.  For every stored booking and every
\* user, the request PUT /bookings/:id/cancel of that user, arriving now, goes on
\* to the cancellation when the user is the owner or an administrator and the
\* booking is active, and is answered 403 with nothing written otherwise.
C13_ForbiddenExactly ==
  \A p \in Reqs, u \in Users, b \in DOMAIN bookings :
    Free(p) =>
      IF bookings[b].user = u \/ u \in Admins
      THEN bookings[b].status = "active" =>
             ENABLED (/\ CancelBookingStart(p, u, bookings[b].id)
                      /\ reqs'[p].pc = "cancelFindEvent")
      ELSE ENABLED (/\ CancelBookingStart(p, u, bookings[b].id)
                    /\ reqs'[p].res = "403")

\* the steps that write an event's availableTickets: the event.save() of
\* create-booking, of cancel-booking and of event-update, by request p on the
\* event at position k
SavedByCreateBooking(p, k) ==
  /\ reqs[p].op = "createBooking" /\ reqs[p].pc = "bookingSaveEvent"
  /\ reqs[p].doc = k /\ reqs'[p].pc = "bookingCounter"
  /\ events'[k].availableTickets = reqs[p].availableTickets

SavedByCancelBooking(p, k) ==
  /\ reqs[p].op = "cancelBooking" /\ reqs[p].pc = "cancelSaveEvent"
  /\ reqs[p].doc = k /\ reqs'[p].pc = "cancelSaveBooking"
  /\ events'[k].availableTickets = reqs[p].availableTickets

SavedByUpdateEvent(p, k) ==
  /\ reqs[p].op = "updateEvent" /\ reqs[p].pc = "updateSaveEvent"
  /\ reqs[p].doc = k /\ reqs'[p].res = "200"
  /\ events'[k].availableTickets = reqs[p].availableTickets

AvailableChanged(k) ==
  /\ events[k].present /\ events'[k].present
  /\ events'[k].availableTickets # events[k].availableTickets

Was(p, op, status) == reqs[p].op = op /\ reqs[p].pc = "done" /\ reqs[p].res = status

\* every request after slot n is absent or is a cancel of booking bid that was
\* answered "already cancelled"
OnlyReCancels(n, bid) ==
  \A p \in Reqs : p > n =>
    \/ reqs[p].op = "none"
    \/ Was(p, "cancelBooking", "400 cancelled") /\ reqs[p].bookingId = bid

C16_TotalPriceFrozen ==
  [][/\ \A k \in DOMAIN bookings :
          k \in DOMAIN bookings' /\ bookings'[k].totalPrice = bookings[k].totalPrice
     /\ \A p \in Reqs :
          (reqs[p].op = "none" /\ reqs'[p].pc = "bookingSaveEvent")
            => reqs'[p].totalPrice =
                 events[FindEvent(reqs'[p].eventId)].price * reqs'[p].quantity
     /\ \A k \in DOMAIN bookings' \ DOMAIN bookings :
          \E p \in Reqs : /\ reqs[p].pc = "bookingInsert" /\ reqs'[p].pc = "done"
                          /\ bookings'[k].totalPrice = reqs[p].totalPrice
    ]_vars

\* C16 witness: the stored booking was cancelled and its event's price was
\* updated, so its totalPrice is no longer the event's price times its quantity
C16_Witness ==
  /\ \E p \in Reqs : Was(p, "cancelBooking", "200") /\ reqs[p].bookingId = 1
  /\ \E p \in Reqs : Was(p, "updateEvent", "200")
  /\ bookings[1].status = "cancelled"
  /\ events[1].present
  /\ bookings[1].totalPrice # events[1].price * bookings[1].quantity

UniqueIds ==
  /\ \A j, k \in DOMAIN events :
       (events[j].present /\ events[k].present /\ events[j].id = events[k].id) => j = k
  /\ \A j, k \in DOMAIN bookings : bookings[j].id = bookings[k].id => j = k

\* C17: ids are assigned once and never reassigned.  No step changes the id of a
\* stored event or booking, and after every step no two stored events and no two
\* bookings share an id.
C17_IdsNeverReassigned ==
  [][/\ \A k \in DOMAIN events :
          (events[k].present /\ events'[k].present) => events'[k].id = events[k].id
     /\ \A k \in DOMAIN bookings : bookings'[k].id = bookings[k].id
     /\ UniqueIds'
    ]_vars

\* C18: every booking's event field is the id of a stored event, in every state.
C18_ReferentialIntegrity ==
  \A b \in DOMAIN bookings : FindEvent(bookings[b].event) # 0

\* the last booking id the counter handed out, 0 before the first
BookingSeq(c) == IF "bookingId" \in DOMAIN c THEN c["bookingId"] ELSE 0

\* C19: in create-booking the id is taken only after the decrement was applied.
\* The booking counter advances only in a step of a create-booking request that
\* stands behind its event.save(); a request comes to stand there only by the
\* step that writes its decremented availableTickets to the event; and a
\* create-booking request answered before that write (validation, event not
\* found, not enough tickets, a failed event.save()) leaves the counter alone.
C19_IdAfterDecrement ==
  [][/\ BookingSeq(counters') # BookingSeq(counters) =>
          \E p \in Reqs : /\ reqs[p].op = "createBooking"
                          /\ reqs[p].pc = "bookingCounter"
                          /\ reqs'[p].pc = "bookingInsert"
     /\ \A p \in Reqs :
          (reqs'[p].pc = "bookingCounter" /\ reqs[p].pc # "bookingCounter") =>
            /\ reqs[p].pc = "bookingSaveEvent"
            /\ events'[reqs[p].doc].availableTickets = reqs[p].availableTickets
            /\ counters' = counters
     /\ \A p \in Reqs :
          (/\ reqs[p].pc \in {"idle", "bookingSaveEvent"}
           /\ reqs'[p].op = "createBooking" /\ reqs'[p].pc = "done")
            => counters' = counters
    ]_vars

\* C19 witness: one create-booking was answered 201 and one was refused for lack
\* of tickets; exactly one id was taken (the stored booking had id 1)
C19_Witness ==
  /\ \E p \in Reqs : Was(p, "createBooking", "201")
  /\ \E p \in Reqs : Was(p, "createBooking", "400 tickets")
  /\ BookingSeq(counters) = 2
  /\ Len(bookings) = 2

\* C20: a create-booking request with quantity < 1 is answered "invalid input" in
\* the step it arrives, whatever is stored, and that step changes no event, no
\* booking and no counter; no such request is ever past that step.
C20_InvalidQuantityRejected ==
  [][\A p \in Reqs :
       (reqs'[p].op = "createBooking" /\ reqs'[p].quantity < 1) =>
         /\ reqs'[p].pc = "done" /\ reqs'[p].res = "400 validation"
         /\ reqs[p].op = "none" => db' = db
    ]_vars

\* C20 witness: a create-booking of quantity 0 on the stored event, which has a
\* ticket available, was answered "invalid input"
C20_Witness ==
  \E p \in Reqs :
    /\ Was(p, "createBooking", "400 validation")
    /\ reqs[p].quantity = 0 /\ reqs[p].eventId = 1
    /\ events[1].present /\ events[1].availableTickets > 0

\* no stored event has this id
NoSuchEvent(eid) == \A k \in DOMAIN events : ~(events[k].present /\ events[k].id = eid)

\* C21: a create-booking request with a valid quantity that names an event id no
\* stored event has is answered "event not found" in the step it arrives, and
\* that step changes no event, no booking and no counter.
C21_UnknownEventRejected ==
  [][\A p \in Reqs :
       (/\ reqs[p].op = "none" /\ reqs'[p].op = "createBooking"
        /\ reqs'[p].quantity >= 1 /\ NoSuchEvent(reqs'[p].eventId))
       => /\ reqs'[p].pc = "done" /\ reqs'[p].res = "404 event"
          /\ db' = db
    ]_vars

\* C21 witness: a create-booking for event 1 was answered "event not found"
\* after event 1 was deleted; the stored booking and the counter are as before
C21_Witness ==
  /\ Was(1, "deleteEvent", "200") /\ reqs[1].eventId = 1
  /\ Was(2, "createBooking", "404 event") /\ reqs[2].eventId = 1
  /\ Len(bookings) = 1 /\ BookingSeq(counters) = 1

\* C22: cancelling a booking whose event is no longer stored ends in a
\* not-found answer, not in a 500, and changes no event, booking or counter.
C22_CancelWithoutEvent ==
  [][\A p \in Reqs :
       (/\ reqs[p].op = "cancelBooking" /\ reqs[p].pc = "cancelFindEvent"
        /\ NoSuchEvent(reqs[p].eventId) /\ reqs'[p].pc = "done")
       => /\ reqs'[p].res \in {"404 event", "404 booking"}
          /\ db' = db
    ]_vars

C24_FirstIdIsOne ==
  [][/\ \A name \in {"eventId", "bookingId"} :
          (name \notin DOMAIN counters /\ name \in DOMAIN counters') =>
            /\ counters'[name] = 1
            /\ \E p \in Reqs : /\ reqs[p].pc \in {"eventCounter", "bookingCounter"}
                               /\ reqs'[p].pc \in {"eventInsert", "bookingInsert"}
                               /\ reqs'[p].id = 1
     /\ (events = <<>> /\ events' # <<>> /\ counters["eventId"] = 1)
          => events'[1].id = 1
     /\ (bookings = <<>> /\ bookings' # <<>> /\ counters["bookingId"] = 1)
          => bookings'[1].id = 1
    ]_vars

\* C24 witness: from empty collections one event and then one booking were
\* created; both have id 1
C24_Witness ==
  /\ Was(1, "createEvent", "201") /\ Was(2, "createBooking", "201")
  /\ Len(events) = 1 /\ events[1].id = 1
  /\ Len(bookings) = 1 /\ bookings[1].id = 1
  /\ counters = [n \in {"eventId", "bookingId"} |-> 1]

\* C30: a newly created event starts with availableTickets = totalTickets >= 1
\* and no bookings.  In the state right after the insert the new event has all
\* its tickets available, at least one, and no stored booking names its id, so
\* availableTickets plus the active quantity (none) is totalTickets.
C30_NewEventConserves ==
  [][\A k \in DOMAIN events' \ DOMAIN events :
       /\ events'[k].availableTickets = events'[k].totalTickets
       /\ events'[k].totalTickets >= 1
       /\ \A b \in DOMAIN bookings' : bookings'[b].event # events'[k].id
    ]_vars

\* C30 witness: a second event was created after the first had a booking on it
C30_Witness ==
  /\ Len(events) = 2 /\ Len(bookings) = 1
  /\ \E p \in Reqs : Was(p, "createEvent", "201")
  /\ events[2].availableTickets = events[2].totalTickets

\* the stored booking with this id, as a set (empty if none)
BookingsWithId(bid) == {k \in DOMAIN bookings : bookings[k].id = bid}

\* C25: get-booking is read-only and ownership-checked.  A get-booking request
\* is answered in the step it arrives: "not found" when no booking has the id,
\* "not authorized" when the requester is not the booking's owner, and the
\* booking itself otherwise; the step changes no booking, event or counter.
C25_GetBooking ==
  [][\A p \in Reqs :
       (reqs[p].op = "none" /\ reqs'[p].op = "getBooking") =>
         /\ reqs'[p].pc = "done"
         /\ db' = db
         /\ IF BookingsWithId(reqs'[p].bookingId) = {}
            THEN reqs'[p].res = "404 booking"
            ELSE \E k \in BookingsWithId(reqs'[p].bookingId) :
                   IF bookings[k].user # reqs'[p].user
                   THEN reqs'[p].res = "403"
                   ELSE reqs'[p].res = "200" /\ reqs'[p].body = <<bookings[k]>>
    ]_vars

\* the number of the user's bookings whose bookingDate is after / not before d
Newer(u, d) == Cardinality({k \in DOMAIN bookings :
                              bookings[k].user = u /\ bookings[k].bookingDate > d})
NotOlder(u, d) == Cardinality({k \in DOMAIN bookings :
                                 bookings[k].user = u /\ bookings[k].bookingDate >= d})

\* C26: list-bookings with page >= 1 and limit >= 1 returns the page's slice of
\* the user's bookings in bookingDate-descending order: only stored bookings of
\* that user, active or cancelled, none twice, newest first, as many as the
\* positions (page-1)*limit .. page*limit-1 hold, and each at a position that its
\* bookingDate allows in the ordered list.
C26_ListBookings ==
  [][\A p \in Reqs :
       (/\ reqs[p].op = "none" /\ reqs'[p].op = "listBookings"
        /\ reqs'[p].page >= 1 /\ reqs'[p].limit >= 1)
       => LET u == reqs'[p].user
              body == reqs'[p].body
              first == (reqs'[p].page - 1) * reqs'[p].limit
              n == Cardinality({k \in DOMAIN bookings : bookings[k].user = u})
              rest == IF n > first THEN n - first ELSE 0
          IN /\ reqs'[p].res = "200"
             /\ \A i \in DOMAIN body :
                  body[i].user = u /\ \E k \in DOMAIN bookings : bookings[k] = body[i]
             /\ \A i, j \in DOMAIN body : body[i].id = body[j].id => i = j
             /\ \A i, j \in DOMAIN body :
                  i < j => body[i].bookingDate >= body[j].bookingDate
             /\ Len(body) = IF rest < reqs'[p].limit THEN rest ELSE reqs'[p].limit
             /\ \A i \in DOMAIN body :
                  /\ Newer(u, body[i].bookingDate) <= first + i - 1
                  /\ first + i <= NotOlder(u, body[i].bookingDate)
    ]_vars

\* C26 witness: u1, who has the cancelled booking 1 and the newer booking 3,
\* asked for page 2 with limit 1 and got booking 1
C26_Witness ==
  \E p \in Reqs :
    /\ Was(p, "listBookings", "200") /\ reqs[p].user = "u1"
    /\ reqs[p].page = 2 /\ reqs[p].limit = 1
    /\ bookings[3].user = "u1"
    /\ Len(reqs[p].body) = 1
    /\ reqs[p].body[1].id = 1 /\ reqs[p].body[1].status = "cancelled"

\* C27: cancel-booking checks in the order booking absent (404), requester not
\* the owner (403), already cancelled (400).  For every user and booking id, the
\* cancel request of that user, arriving now, is answered 404 when no booking has
\* the id, else 403 when the user is not the owner (cancelled or not), else 400
\* when the booking is cancelled, and goes on otherwise; in each case the step
\* writes nothing.
C27_CancelCheckOrder ==
  \A p \in Reqs, u \in Users, bid \in ListedIds :
    Free(p) =>
      ENABLED (/\ CancelBookingStart(p, u, bid)
               /\ db' = db
               /\ IF BookingsWithId(bid) = {}
                  THEN reqs'[p].res = "404 booking"
                  ELSE \E k \in BookingsWithId(bid) :
                         IF bookings[k].user # u THEN reqs'[p].res = "403"
                         ELSE IF bookings[k].status = "cancelled"
                              THEN reqs'[p].res = "400 cancelled"
                         ELSE reqs'[p].pc = "cancelFindEvent")

\* C27 witness: the cancelled booking 1 of u1 was asked to be cancelled once, and
\* the answer was 403: the requester was not its owner
C27_Witness ==
  /\ Was(1, "cancelBooking", "403") /\ reqs[1].bookingId = 1
  /\ \A p \in Reqs : p > 1 => reqs[p].op = "none"
  /\ bookings[1].status = "cancelled"
  /\ events[1].availableTickets = 1

\* the tickets sold of the stored event at position k
Sold(k) == events[k].totalTickets - events[k].availableTickets

\* C28: PUT /events/:id with a new totalTickets t >= 1 keeps the tickets sold.
\* (a) On arrival, for every stored event and every t: when availableTickets
\* + (t - totalTickets) is negative the request is answered 400 in that step
\* and the collections are unchanged; otherwise the handler goes on to save
\* with totalTickets = t and availableTickets shifted by exactly t - totalTickets.
\* (b) The save of an update that runs alone (no other request has arrived)
\* answers 200, stores the new totalTickets and leaves totalTickets -
\* availableTickets as it was.
C28_UpdatePreservesSold ==
  /\ \A p \in Reqs, k \in DOMAIN events, t \in 1..MaxTickets + 1 :
       (Free(p) /\ events[k].present) =>
         LET shifted == events[k].availableTickets + (t - events[k].totalTickets)
         IN ENABLED
              /\ UpdateEventStart(p, events[k].id, Body("totalTickets", t))
              /\ IF shifted < 0
                 THEN /\ reqs'[p].pc = "done" /\ reqs'[p].res = "400 total"
                      /\ db' = db
                 ELSE /\ reqs'[p].pc = "updateSaveEvent" /\ reqs'[p].doc = k
                      /\ reqs'[p].totalTickets = t
                      /\ reqs'[p].availableTickets = shifted
                      /\ db' = db
  /\ LET k == reqs[1].doc
     IN (/\ reqs[1].op = "updateEvent" /\ reqs[1].pc = "updateSaveEvent"
         /\ reqs[1].totalTickets >= 1
         /\ \A p \in Reqs : p > 1 => reqs[p].op = "none")
        => ENABLED
             /\ UpdateEventSave(1)
             /\ reqs'[1].res = "200"
             /\ events'[k].totalTickets = reqs[1].totalTickets
             /\ events'[k].totalTickets - events'[k].availableTickets = Sold(k)
             /\ bookings' = bookings

\* an update run alone raised the capacity of the stored event above every
\* capacity it could start with, the stored booking still active
C28_Witness ==
  /\ Was(1, "updateEvent", "200") /\ reqs[1].eventId = 1
  /\ \A p \in Reqs : p > 1 => reqs[p].op = "none"
  /\ events[1].totalTickets = MaxTickets + 1
  /\ bookings[1].status = "active"
  /\ Sold(1) = 1

\* C29: an update of the stored event and a create-booking or cancel-booking on
\* it, both answered with success in any interleaving, leave totalTickets -
\* availableTickets equal to the sum of quantity over the event's active bookings.
C29_UpdateKeepsBookingEffect ==
  (\E p, o \in Reqs :
     /\ p # o
     /\ Was(p, "updateEvent", "200") /\ reqs[p].eventId = 1
     /\ \/ Was(o, "createBooking", "201") /\ reqs[o].eventId = 1
        \/ Was(o, "cancelBooking", "200") /\ reqs[o].bookingId = 1
     /\ \A n \in Reqs : n \notin {p, o} => reqs[n].op = "none")
  => Sold(1) = SumActive(1)

\* the value of a counter, 0 while its document does not exist
SeqOf(name) == IF name \in DOMAIN counters THEN counters[name] ELSE 0

\* C31: ids are never reused.  In every reachable state the eventId counter is
\* at least the id of every event stored or deleted so far, and the bookingId
\* counter at least the id of every booking, so that the next id a counter hands
\* out differs from the id of every record there has been.
C31_SeqCoversIds ==
  /\ \A k \in DOMAIN events : events[k].id <= SeqOf("eventId")
  /\ \A b \in DOMAIN bookings : bookings[b].id <= SeqOf("bookingId")

\* no user appears twice in the array
NoDuplicates(users) ==
  \A i, j \in DOMAIN users : users[i] = users[j] => i = j

\* C32: favorites stay consistent.  In every reachable state each stored
\* event's interestedCount is the number of entries of interestedUsers, no user
\* appears twice in interestedUsers and interestedCount is not negative; and
\* for every event and user, an add-favorite by a user already in
\* interestedUsers, and a remove-favorite by a user not in it, is answered 400
\* with the collections unchanged.
C32_FavoritesConsistent ==
  /\ \A k \in DOMAIN events : events[k].present =>
       /\ events[k].interestedCount = Len(events[k].interestedUsers)
       /\ NoDuplicates(events[k].interestedUsers)
       /\ events[k].interestedCount >= 0
  /\ \A p \in Reqs, k \in DOMAIN events, u \in Users :
       (Free(p) /\ events[k].present) =>
         IF \E i \in DOMAIN events[k].interestedUsers :
              events[k].interestedUsers[i] = u
         THEN ENABLED (/\ AddFavoriteStart(p, u, events[k].id)
                       /\ reqs'[p].pc = "done" /\ reqs'[p].res = "400 favorite"
                       /\ db' = db)
         ELSE ENABLED (/\ RemoveFavoriteStart(p, u, events[k].id)
                       /\ reqs'[p].pc = "done" /\ reqs'[p].res = "400 not favorite"
                       /\ db' = db)
====
